---- MODULE Spec2Model ----
(***************************************************************************)
(* File-mailbox bridge of src-tauri/src/main.rs: the outbound dispatcher   *)
(* (send_whatsapp_message), the session cache (WhatsAppState), the         *)
(* status/QR monitor (init_whatsapp), the status query                     *)
(* (get_whatsapp_status) and the listener registry                         *)
(* (listen_whatsapp_messages, stop_whatsapp_listener), together with the   *)
(* external service that shares the mailbox directory.                     *)
(***************************************************************************)
EXTENDS Integers, Sequences, FiniteSets, Bags, TLC

VARIABLES
    files,        \* the mailbox directory: path -> file
    cache,        \* WhatsAppState: the Mutex<WhatsAppStatus>
    now,          \* SystemTime, in clock granules
    sendPc,       \* send_whatsapp_message: position of each call
    sendLocal,    \* send_whatsapp_message: locals of each call
    sendResult,   \* send_whatsapp_message: what each call returned
    svcReq,       \* external service: the request it has read from message.json
    hist,         \* history of each exchange (what the service did, and when)
    initPc,       \* init_whatsapp: position of each invocation
    monPc,        \* monitor thread of each invocation: position in its loop
    mon,          \* monitor thread of each invocation: last_status, last_qr, status_data
    getPc,        \* get_whatsapp_status: position
    getLocal,     \* get_whatsapp_status: the status built from the file
    statusEvents, \* the 'whatsapp-status' events the UI received last (the latest two)
    qrEvents,     \* the 'whatsapp-qr' events the UI received last (the latest two)
    pollers,      \* listener poller threads: id, position, last_check
    msgEvents,    \* the 'whatsapp-message-received' events emitted so far (a bag)
    nextInst      \* external service: number of the next file it delivers

(***************************************************************************)
(* Bounds of the model.                                                    *)
(***************************************************************************)
MaxCalls == 2
MaxInits == 2
MaxPollers == 2
MaxTime == 1
MaxMessages == 2
MaxWatchers == 1
MaxClock == 2

(***************************************************************************)
(* Program constants.                                                      *)
(***************************************************************************)
SendDeadlineMs == 5000
SendSleepMs == 100

CallIds == 1..MaxCalls

InitIds == 1..MaxInits
PollerIds == 1..MaxPollers

sendVars == <<sendPc, sendLocal, sendResult, svcReq, hist>>
monVars == <<initPc, monPc, mon, getPc, getLocal, statusEvents, qrEvents>>
lsnVars == <<pollers, msgEvents, nextInst>>

\* what the dispatcher and the service's side of an exchange never touch
notSend == <<now, monVars, lsnVars>>
\* what init_whatsapp, the monitor and get_whatsapp_status never touch
notMon == <<now, sendVars, lsnVars>>
\* what the listener registry and its pollers never touch
notLsn == <<cache, sendVars, monVars>>

(***************************************************************************)
(* The mailbox directory.                                                  *)
(***************************************************************************)
message_path == "message.json"
error_path == "message_error.txt"

Absent == [exists |-> FALSE]
File(d) == [exists |-> TRUE, data |-> d]

status_file == "status.txt"
qr_file == "qr.txt"

listeners_file == "listeners.json"
remove_file == "remove_listener.txt"

\* the subscription ids the UI uses
Ids == {"A", "B"}

ReceivedFile_shared(id) == "received.json"

\* line 1077: data_dir.join(format!("received_{}.json", id))
ReceivedFile(id) == "received_" \o id \o ".json"

AllPaths ==
    {message_path, error_path, status_file, qr_file, listeners_file, remove_file}
      \cup {ReceivedFile(id) : id \in Ids}

(***************************************************************************)
(* WhatsAppStatus and the values the cache can hold when a call arrives.   *)
(***************************************************************************)
WhatsAppStatus(s, t, a, r, i) ==
    [status |-> s, timestamp |-> t, is_authenticated |-> a,
     is_client_ready |-> r, is_initializing |-> i]

MainStatus == WhatsAppStatus("initializing", "t0", FALSE, FALSE, TRUE)

(***************************************************************************)
(* File contents.  A JSON object is a record of the members it has; a file *)
(* that is not JSON is Garbage.                                            *)
(***************************************************************************)
Garbage == [garbage |-> TRUE]
IsJson(d) == "garbage" \notin DOMAIN d

\* serde: Serialize for WhatsAppStatus (the renamed members)
ToJson(s) ==
    [status |-> s.status, timestamp |-> s.timestamp, isAuthenticated |-> s.is_authenticated,
     isClientReady |-> s.is_client_ready, isInitializing |-> s.is_initializing]

StatusMembers == {"status", "timestamp", "isAuthenticated", "isClientReady", "isInitializing"}

\* serde_json::from_str::<WhatsAppStatus>: every member is required
ParsesAsStatus(d) == IsJson(d) /\ StatusMembers \subseteq DOMAIN d

FromJson(d) ==
    WhatsAppStatus(d.status, d.timestamp, d.isAuthenticated, d.isClientReady, d.isInitializing)

Member(d, m, default) == IF m \in DOMAIN d THEN d[m] ELSE default

\* get_whatsapp_status: status["..."].as_str().unwrap_or(..) / as_bool().unwrap_or(false)
FromValue(d) ==
    WhatsAppStatus(Member(d, "status", "disconnected"), Member(d, "timestamp", "0"),
                   Member(d, "isAuthenticated", FALSE), Member(d, "isClientReady", FALSE),
                   Member(d, "isInitializing", FALSE))

\* what the external service may put into status.txt
StatusWrites ==
    { ToJson(WhatsAppStatus("ready", "t1", TRUE, TRUE, FALSE)),
      ToJson(WhatsAppStatus("ready", "t2", FALSE, FALSE, FALSE)),
      [status |-> "authenticated", isAuthenticated |-> TRUE],
      Garbage }

\* what the external service may put into qr.txt (characters)
QrWrites == { <<"q">>, <<" ", "q">>, <<"r">> }

\* the values the cache can hold when a call arrives
CacheAtCall ==
    {MainStatus}
      \cup {FromJson(d) : d \in {w \in StatusWrites : ParsesAsStatus(w)}}
      \cup {FromValue(d) : d \in {w \in StatusWrites : IsJson(w)}}

(***************************************************************************)
(* send_whatsapp_message                                                   *)
(***************************************************************************)
NoError == [text |-> "", about |-> 0]

PhoneInputs == { <<"+", "1", " ", "5">>, <<"2", "-", "a">> }
MessageInputs == { "hi" }

IsAsciiDigit(ch) == ch \in {"0", "1", "2", "3", "4", "5", "6", "7", "8", "9"}

FormatPhoneNumber_asIs(phone_number) == phone_number

\* phone_number.chars().filter(|c| c.is_ascii_digit()).collect()
FormatPhoneNumber(phone_number) == SelectSeq(phone_number, IsAsciiDigit)

NotConnected_authOnly(s) == ~s.is_authenticated

\* !whatsapp_status.is_authenticated || !whatsapp_status.is_client_ready
NotConnected(s) == ~s.is_authenticated \/ ~s.is_client_ready

Min(a, b) == IF a < b THEN a ELSE b

\* start.elapsed(), saturated at the deadline (every later instant behaves alike)
Later(elapsed, ms) == Min(elapsed + ms, SendDeadlineMs)

Waiting == {"loop", "sleep", "errchk", "errread", "errrm", "final", "tmo"}
Exchanging == Waiting \cup {"write"}

\* callers are serialized upstream: call c arrives after the calls before it returned
Serialized(c) ==
    /\ \A d \in CallIds : d < c => sendPc[d] = "done"
    /\ \A d \in CallIds : d > c => sendPc[d] = "idle"

\* phone_number_arg is the argument, phone_number the digits that shadow it (line 796)
NoLocals ==
    [phone_number_arg |-> <<>>, phone_number |-> <<>>, message |-> "", elapsed |-> 0,
     error |-> NoError]
NoResult == [kind |-> "pending", error |-> NoError]
NoHistory ==
    [rmDuring |-> FALSE, rmBefore |-> FALSE, errDuring |-> FALSE, errBefore |-> FALSE,
     errFirst |-> FALSE, errAtIter |-> FALSE, expired |-> FALSE, afterFailure |-> FALSE]

\* return Ok(()) / Err(..): the call's frame is dropped
Return(c, kind, err) ==
    /\ sendPc' = [sendPc EXCEPT ![c] = "done"]
    /\ sendResult' = [sendResult EXCEPT ![c] = [kind |-> kind, error |-> err]]
    /\ sendLocal' = [sendLocal EXCEPT ![c] = NoLocals]

\* the callers of the calls that returned earlier have taken their results
Taken(c, of, none) == [d \in CallIds |-> IF d # c /\ sendPc[d] = "done" THEN none ELSE of[d]]

\* the call before call c ended in a timeout or with the error artifact
PreviousFailed(c) ==
    \E d \in CallIds : d + 1 = c /\ sendPc[d] = "done" /\ sendResult[d].kind \in {"error", "timeout"}

\* lines 785-793: copy the cache under the lock, check the precondition
Send_Enter(c, phone_number, message) ==
    /\ sendPc[c] = "idle"
    /\ LET whatsapp_status == cache IN
         IF NotConnected(whatsapp_status)
         THEN /\ sendPc' = [sendPc EXCEPT ![c] = "done"]
              /\ sendResult' = [Taken(c, sendResult, NoResult) EXCEPT
                                  ![c] = [kind |-> "not_connected", error |-> NoError]]
              /\ UNCHANGED sendLocal
         ELSE /\ sendPc' = [sendPc EXCEPT ![c] = "rmerr"]
              /\ sendLocal' = [sendLocal EXCEPT ![c].phone_number_arg = phone_number,
                                                ![c].phone_number = FormatPhoneNumber(phone_number),
                                                ![c].message = message]
              /\ sendResult' = Taken(c, sendResult, NoResult)
    /\ hist' = [Taken(c, hist, NoHistory) EXCEPT ![c].afterFailure = PreviousFailed(c)]
    /\ UNCHANGED <<files, cache, notSend, svcReq>>

\* lines 854-864: remove any existing error file
Send_RemoveStaleError(c) ==
    /\ sendPc[c] = "rmerr"
    /\ files' = [files EXCEPT ![error_path] = Absent]
    /\ sendPc' = [sendPc EXCEPT ![c] = "write"]
    /\ UNCHANGED <<cache, notSend, sendLocal, sendResult, svcReq, hist>>

\* lines 842-845: the request; req names the exchange it belongs to
MessageData(c) ==
    [phoneNumber |-> sendLocal[c].phone_number, message |-> sendLocal[c].message, req |-> c]

\* lines 866-881, 899: write message.json, take the start instant
Send_WriteMessage(c) ==
    /\ sendPc[c] = "write"
    /\ files' = [files EXCEPT ![message_path] = File(MessageData(c))]
    /\ sendLocal' = [sendLocal EXCEPT ![c].elapsed = 0]
    /\ sendPc' = [sendPc EXCEPT ![c] = "loop"]
    /\ UNCHANGED <<cache, notSend, sendResult, svcReq, hist>>

LoopContinues_noDeadline(c) == files[message_path].exists

LoopContinues_whileConnected(c) ==
    files[message_path].exists /\ sendLocal[c].elapsed < SendDeadlineMs /\ ~NotConnected(cache)

\* line 900: message_path.exists() && start.elapsed() < 5 s
LoopContinues(c) ==
    files[message_path].exists /\ sendLocal[c].elapsed < SendDeadlineMs

Send_LoopCheck(c) ==
    /\ sendPc[c] = "loop"
    /\ IF LoopContinues(c)
       THEN /\ sendPc' = [sendPc EXCEPT ![c] = "sleep"]
            /\ hist' = [hist EXCEPT ![c].errAtIter = @ \/ files[error_path].exists]
       ELSE /\ sendPc' = [sendPc EXCEPT ![c] = "final"]
            /\ hist' = [hist EXCEPT ![c].expired = sendLocal[c].elapsed >= SendDeadlineMs]
    /\ UNCHANGED <<files, cache, notSend, sendLocal, sendResult, svcReq>>

\* line 901: thread::sleep(100 ms)
Send_Sleep(c) ==
    /\ sendPc[c] = "sleep"
    /\ sendLocal' = [sendLocal EXCEPT ![c].elapsed = Later(@, SendSleepMs)]
    /\ sendPc' = [sendPc EXCEPT ![c] = "errchk"]
    /\ UNCHANGED <<files, cache, notSend, sendResult, svcReq, hist>>

\* line 904: error_path.exists()
Send_ErrCheck(c) ==
    /\ sendPc[c] = "errchk"
    /\ sendPc' = [sendPc EXCEPT ![c] = IF files[error_path].exists THEN "errread" ELSE "loop"]
    /\ UNCHANGED <<files, cache, notSend, sendLocal, sendResult, svcReq, hist>>

\* lines 905-910: fs::read_to_string(&error_path)?
Send_ErrRead(c) ==
    /\ sendPc[c] = "errread"
    /\ IF files[error_path].exists
       THEN /\ sendLocal' = [sendLocal EXCEPT ![c].error = files[error_path].data]
            /\ sendPc' = [sendPc EXCEPT ![c] = "errrm"]
            /\ UNCHANGED sendResult
       ELSE Return(c, "io_error", NoError)
    /\ UNCHANGED <<files, cache, notSend, svcReq, hist>>

Send_ErrReturn_keepFile(c) ==
    /\ sendPc[c] = "errrm"
    /\ Return(c, "error", sendLocal[c].error)
    /\ UNCHANGED <<files, cache, notSend, svcReq, hist>>

Send_ErrReturn_removesRequest(c) ==
    /\ sendPc[c] = "errrm"
    /\ files' = [files EXCEPT ![error_path] = Absent, ![message_path] = Absent]
    /\ Return(c, "error", sendLocal[c].error)
    /\ UNCHANGED <<cache, notSend, svcReq, hist>>

\* lines 912-913: fs::remove_file(&error_path).ok(); return Err(error)
Send_ErrReturn(c) ==
    /\ sendPc[c] = "errrm"
    /\ files' = [files EXCEPT ![error_path] = Absent]
    /\ Return(c, "error", sendLocal[c].error)
    /\ UNCHANGED <<cache, notSend, svcReq, hist>>

TimedOut_inverted(c) == ~files[message_path].exists

\* line 918: message_path.exists()
TimedOut(c) == files[message_path].exists

\* lines 917-918, 935-936: the check after the loop; Ok(()) when the file is gone
Send_FinalCheck(c) ==
    /\ sendPc[c] = "final"
    /\ IF TimedOut(c)
       THEN /\ sendPc' = [sendPc EXCEPT ![c] = "tmo"]
            /\ UNCHANGED <<sendResult, sendLocal>>
       ELSE Return(c, "ok", NoError)
    /\ UNCHANGED <<files, cache, notSend, svcReq, hist>>

Send_Timeout_keepFile(c) ==
    /\ sendPc[c] = "tmo"
    /\ Return(c, "timeout", NoError)
    /\ UNCHANGED <<files, cache, notSend, svcReq, hist>>

\* lines 931-932: fs::remove_file(&message_path).ok(); return Err("Timeout ...")
Send_Timeout(c) ==
    /\ sendPc[c] = "tmo"
    /\ files' = [files EXCEPT ![message_path] = Absent]
    /\ Return(c, "timeout", NoError)
    /\ UNCHANGED <<cache, notSend, svcReq, hist>>

\* time passes while calls wait (scheduling, file operations, oversleeping)
Send_Tick ==
    /\ \E c \in CallIds : sendPc[c] \in Waiting /\ sendLocal[c].elapsed < SendDeadlineMs
    /\ sendLocal' = [c \in CallIds |->
                       IF sendPc[c] \in Waiting
                       THEN [sendLocal[c] EXCEPT !.elapsed = Later(@, SendSleepMs)]
                       ELSE sendLocal[c]]
    /\ UNCHANGED <<files, cache, notSend, sendPc, sendResult, svcReq, hist>>

(***************************************************************************)
(* The external service's side of an exchange.  It reads message.json,     *)
(* deletes it when the message was sent, and writes message_error.txt      *)
(* about the request it has read.                                          *)
(***************************************************************************)
ServiceError(req) == [text |-> "send failed", about |-> req]

BeforeDeadline(c) == sendPc[c] \in Exchanging /\ sendLocal[c].elapsed < SendDeadlineMs

Svc_ReadMessage ==
    /\ files[message_path].exists
    /\ svcReq # files[message_path].data.req
    /\ svcReq' = files[message_path].data.req
    /\ UNCHANGED <<files, cache, notSend, sendPc, sendLocal, sendResult, hist>>

Svc_RemoveMessage ==
    /\ files[message_path].exists
    /\ files' = [files EXCEPT ![message_path] = Absent]
    /\ hist' = [c \in CallIds |->
                  IF c = files[message_path].data.req /\ sendPc[c] \in Exchanging \ {"tmo"}
                  THEN [hist[c] EXCEPT !.rmDuring = TRUE,
                                       !.rmBefore = @ \/ BeforeDeadline(c)]
                  ELSE hist[c]]
    /\ UNCHANGED <<cache, notSend, sendPc, sendLocal, sendResult, svcReq>>

Svc_WriteError ==
    /\ svcReq # 0
    /\ files' = [files EXCEPT ![error_path] = File(ServiceError(svcReq))]
    /\ hist' = [c \in CallIds |->
                  IF sendPc[c] \in Exchanging
                  THEN [hist[c] EXCEPT !.errDuring = TRUE,
                                       !.errBefore = @ \/ BeforeDeadline(c),
                                       !.errFirst = @ \/ (BeforeDeadline(c) /\ ~hist[c].rmDuring)]
                  ELSE hist[c]]
    /\ UNCHANGED <<cache, notSend, sendPc, sendLocal, sendResult, svcReq>>

(***************************************************************************)
(* init_whatsapp and its monitor thread                                    *)
(***************************************************************************)
IsSpace(ch) == ch = " "

\* str::trim
RECURSIVE TrimStart(_)
TrimStart(str) ==
    IF str # <<>> /\ IsSpace(Head(str)) THEN TrimStart(Tail(str)) ELSE str

RECURSIVE TrimEnd(_)
TrimEnd(str) ==
    IF str # <<>> /\ IsSpace(str[Len(str)]) THEN TrimEnd(SubSeq(str, 1, Len(str) - 1)) ELSE str

Trim_none(str) == str

Trim(str) == TrimEnd(TrimStart(str))

\* lines 990-996
init_status == WhatsAppStatus("initializing", "t_init", FALSE, FALSE, TRUE)

NoMonitor == [last_status |-> "", last_qr |-> <<>>, status_data |-> MainStatus]

\* the invocations of init_whatsapp: the one of setup, then those of the UI
Init_MayStart(i) == \A j \in InitIds : j < i => initPc[j] # "idle"

\* emit(..): the UI receives the event; the model keeps the latest two
Emit(events, payload) ==
    IF events = <<>> THEN <<payload>> ELSE <<events[Len(events)], payload>>

\* lines 988-1011: write the initial status file (the result of the write is
\* dropped), spawn the monitor thread with last_status and last_qr empty
Init_Start(i) ==
    /\ initPc[i] = "idle"
    /\ Init_MayStart(i)
    /\ files' = [files EXCEPT ![status_file] = File(ToJson(init_status))]
    /\ initPc' = [initPc EXCEPT ![i] = "spawned"]
    /\ monPc' = [monPc EXCEPT ![i] = "status"]
    /\ mon' = [mon EXCEPT ![i] = NoMonitor]
    /\ UNCHANGED <<cache, notMon, getPc, getLocal, statusEvents, qrEvents>>

\* lines 1040-1043: emit the initial status, return Ok(())
Init_Emit(i) ==
    /\ initPc[i] = "spawned"
    /\ statusEvents' = Emit(statusEvents, init_status)
    /\ initPc' = [initPc EXCEPT ![i] = "done"]
    /\ UNCHANGED <<files, cache, notMon, monPc, mon, getPc, getLocal, qrEvents>>

\* line 1017: status_data.status != last_status
StatusChanged(status_data, last_status) == status_data.status # last_status

Mon_CheckStatus_forgets(i) ==
    /\ monPc[i] = "status"
    /\ IF files[status_file].exists /\ ParsesAsStatus(files[status_file].data)
       THEN IF StatusChanged(FromJson(files[status_file].data), mon[i].last_status)
            THEN LET status_data == FromJson(files[status_file].data) IN
                   /\ mon' = [mon EXCEPT ![i].last_status = status_data.status,
                                         ![i].status_data = status_data]
                   /\ monPc' = [monPc EXCEPT ![i] = "store"]
            ELSE /\ monPc' = [monPc EXCEPT ![i] = "qr"]
                 /\ UNCHANGED mon
       ELSE /\ monPc' = [monPc EXCEPT ![i] = "qr"]
            /\ mon' = [mon EXCEPT ![i].last_status = ""]
    /\ UNCHANGED <<files, cache, notMon, initPc, getPc, getLocal, statusEvents, qrEvents>>

\* lines 1015-1018: read and parse status.txt, compare with last_status
Mon_CheckStatus(i) ==
    /\ monPc[i] = "status"
    /\ IF files[status_file].exists /\ ParsesAsStatus(files[status_file].data)
          /\ StatusChanged(FromJson(files[status_file].data), mon[i].last_status)
       THEN LET status_data == FromJson(files[status_file].data) IN
              /\ mon' = [mon EXCEPT ![i].last_status = status_data.status,
                                    ![i].status_data = status_data]
              /\ monPc' = [monPc EXCEPT ![i] = "store"]
       ELSE /\ monPc' = [monPc EXCEPT ![i] = "qr"]
            /\ UNCHANGED mon
    /\ UNCHANGED <<files, cache, notMon, initPc, getPc, getLocal, statusEvents, qrEvents>>

\* lines 1019-1021: *state = status_data.clone() under the lock
Mon_Store(i) ==
    /\ monPc[i] = "store"
    /\ cache' = mon[i].status_data
    /\ monPc' = [monPc EXCEPT ![i] = "emit"]
    /\ UNCHANGED <<files, notMon, initPc, mon, getPc, getLocal, statusEvents, qrEvents>>

\* line 1022: emit("whatsapp-status", status_data)
Mon_Emit(i) ==
    /\ monPc[i] = "emit"
    /\ statusEvents' = Emit(statusEvents, mon[i].status_data)
    /\ mon' = [mon EXCEPT ![i].status_data = MainStatus]
    /\ monPc' = [monPc EXCEPT ![i] = "qr"]
    /\ UNCHANGED <<files, cache, notMon, initPc, getPc, getLocal, qrEvents>>

\* lines 1027-1036: read qr.txt, trim, compare with last_qr, emit; then sleep 500 ms
Mon_CheckQr(i) ==
    /\ monPc[i] = "qr"
    /\ IF files[qr_file].exists /\ Trim(files[qr_file].data) # mon[i].last_qr
       THEN LET qr == Trim(files[qr_file].data) IN
              /\ mon' = [mon EXCEPT ![i].last_qr = qr]
              /\ qrEvents' = Emit(qrEvents, [qr |-> qr, by |-> i])
       ELSE UNCHANGED <<mon, qrEvents>>
    /\ monPc' = [monPc EXCEPT ![i] = "status"]
    /\ UNCHANGED <<files, cache, notMon, initPc, getPc, getLocal, statusEvents>>

(***************************************************************************)
(* get_whatsapp_status                                                     *)
(***************************************************************************)
\* lines 945-959: no file: the default status is returned and the cache is
\* left alone; a file that is not JSON: Err; otherwise the Value is kept
Get_Read ==
    /\ getPc = "idle"
    /\ files[status_file].exists
    /\ IsJson(files[status_file].data)
    /\ getLocal' = FromValue(files[status_file].data)
    /\ getPc' = "store"
    /\ UNCHANGED <<files, cache, notMon, initPc, monPc, mon, statusEvents, qrEvents>>

\* lines 961-971: *whatsapp_status = WhatsAppStatus {..} under the lock, return a clone
Get_Store ==
    /\ getPc = "store"
    /\ cache' = getLocal
    /\ getLocal' = MainStatus
    /\ getPc' = "idle"
    /\ UNCHANGED <<files, notMon, initPc, monPc, mon, statusEvents, qrEvents>>

(***************************************************************************)
(* The external service overwrites status.txt and qr.txt.                  *)
(***************************************************************************)
Svc_WriteStatus(d) ==
    /\ files[status_file] # File(d)
    /\ files' = [files EXCEPT ![status_file] = File(d)]
    /\ UNCHANGED <<cache, notMon, monVars>>

\* status.txt is taken away (the service restarts, the user clears the directory)
Svc_RemoveStatus ==
    /\ files[status_file].exists
    /\ files' = [files EXCEPT ![status_file] = Absent]
    /\ UNCHANGED <<cache, notMon, monVars>>

Svc_WriteQr(str) ==
    /\ files[qr_file] # File(str)
    /\ files' = [files EXCEPT ![qr_file] = File(str)]
    /\ UNCHANGED <<cache, notMon, monVars>>

InitMonVars ==
    /\ initPc = [i \in InitIds |-> "idle"]
    /\ monPc = [i \in InitIds |-> "none"]
    /\ mon = [i \in InitIds |-> NoMonitor]
    /\ getPc = "idle"
    /\ getLocal = MainStatus
    /\ statusEvents = <<>>
    /\ qrEvents = <<>>

(***************************************************************************)
(* listen_whatsapp_messages, its poller threads, stop_whatsapp_listener    *)
(***************************************************************************)
MessageMembers == {"from", "to", "fromMe", "content", "timestamp"}

\* serde_json::from_str::<WhatsAppReceivedMessage>: every member is required
ParsesAsMessage(d) == IsJson(d) /\ MessageMembers \subseteq DOMAIN d

\* struct WhatsAppReceivedMessage
ReceivedMessage(d) ==
    [from |-> d.from, to |-> d.to, from_me |-> d.fromMe, content |-> d.content,
     timestamp |-> d.timestamp]

\* what the external service may put into a received_<id>.json
InboundWrites ==
    { [from |-> "15551234567", to |-> "me", fromMe |-> FALSE, content |-> "hi",
       timestamp |-> "2024-01-01T00:00:00Z"],
      Garbage }

PhoneLists == { <<"15551234567">> }
Commands == { "cmd" }

\* modified is the modification time the poller found in its current cycle
NoPoller == [id |-> "", pc |-> "none", last_check |-> 0, modified |-> 0]

Listen_keepFirst(p, id, phone_numbers, command) ==
    /\ pollers[p].pc = "none"
    /\ \A q \in PollerIds : q < p => pollers[q].pc # "none"
    /\ files' = IF files[listeners_file].exists THEN files
                ELSE [files EXCEPT ![listeners_file] =
                        File([id |-> id, phoneNumbers |-> phone_numbers, command |-> command])]
    /\ pollers' = [pollers EXCEPT ![p] = [id |-> id, pc |-> "sleep", last_check |-> now, modified |-> 0]]
    /\ UNCHANGED <<now, notLsn, msgEvents, nextInst>>

\* lines 1058-1072: overwrite listeners.json, spawn the poller thread with
\* last_check = SystemTime::now(); p is the number of this registration
Listen(p, id, phone_numbers, command) ==
    /\ pollers[p].pc = "none"
    /\ \A q \in PollerIds : q < p => pollers[q].pc # "none"
    /\ files' = [files EXCEPT ![listeners_file] =
                    File([id |-> id, phoneNumbers |-> phone_numbers, command |-> command])]
    /\ pollers' = [pollers EXCEPT ![p] = [id |-> id, pc |-> "sleep", last_check |-> now, modified |-> 0]]
    /\ UNCHANGED <<now, notLsn, msgEvents, nextInst>>

Listen_WriteFails_spawns(p, id, phone_numbers, command) ==
    /\ pollers[p].pc = "none"
    /\ \A q \in PollerIds : q < p => pollers[q].pc # "none"
    /\ files' = [files EXCEPT ![listeners_file] = File(Garbage)]
    /\ pollers' = [pollers EXCEPT ![p] = [id |-> id, pc |-> "sleep", last_check |-> now, modified |-> 0]]
    /\ UNCHANGED <<now, notLsn, msgEvents, nextInst>>

\* lines 1066-1067: fs::write fails and the call returns Err before the spawn;
\* the file is untouched (no step) or left truncated; p is the number the
\* registration would have had
Listen_WriteFails(p, id, phone_numbers, command) ==
    /\ pollers[p].pc = "none"
    /\ \A q \in PollerIds : q < p => pollers[q].pc # "none"
    /\ files[listeners_file] # File(Garbage)
    /\ files' = [files EXCEPT ![listeners_file] = File(Garbage)]
    /\ UNCHANGED <<now, notLsn, lsnVars>>

Newer_orEqual(modified, last_check) == modified >= last_check

\* line 1082: modified > last_check
Newer(modified, last_check) == modified > last_check

\* lines 1075-1082: after the sleep, fs::metadata of received_<id>.json
Poll_Metadata(p) ==
    /\ pollers[p].pc = "sleep"
    /\ LET received_file == ReceivedFile(pollers[p].id) IN
         /\ files[received_file].exists
         /\ Newer(files[received_file].mtime, pollers[p].last_check)
    /\ pollers' = [pollers EXCEPT ![p].pc = "read",
                                  ![p].modified = files[ReceivedFile(pollers[p].id)].mtime]
    /\ UNCHANGED <<files, now, notLsn, msgEvents, nextInst>>

\* lines 1083-1086: read and parse the file, emit 'whatsapp-message-received'
Poll_Read(p) ==
    /\ pollers[p].pc = "read"
    /\ LET received_file == ReceivedFile(pollers[p].id) IN
         IF files[received_file].exists /\ ParsesAsMessage(files[received_file].data)
         THEN /\ msgEvents' = msgEvents (+) SetToBag(
                                {[message |-> ReceivedMessage(files[received_file].data),
                                  by |-> p,
                                  dest |-> files[received_file].dest,
                                  inst |-> files[received_file].inst,
                                  mtime |-> files[received_file].mtime]})
              /\ pollers' = [pollers EXCEPT ![p].pc = "remove"]
         ELSE /\ pollers' = [pollers EXCEPT ![p].pc = "stamp"]
              /\ UNCHANGED msgEvents
    /\ UNCHANGED <<files, now, notLsn, nextInst>>

\* line 1089: let _ = fs::remove_file(&received_file)
Poll_Remove(p) ==
    /\ pollers[p].pc = "remove"
    /\ files' = [files EXCEPT ![ReceivedFile(pollers[p].id)] = Absent]
    /\ pollers' = [pollers EXCEPT ![p].pc = "stamp"]
    /\ UNCHANGED <<now, notLsn, msgEvents, nextInst>>

\* line 1092: last_check = SystemTime::now()
Poll_Stamp(p) ==
    /\ pollers[p].pc = "stamp"
    /\ pollers' = [pollers EXCEPT ![p].pc = "sleep", ![p].last_check = now, ![p].modified = 0]
    /\ UNCHANGED <<files, now, notLsn, msgEvents, nextInst>>

Stop_stopsPoller(id) ==
    /\ files[remove_file] # File(id)
    /\ files' = [files EXCEPT ![remove_file] = File(id)]
    /\ pollers' = [p \in PollerIds |->
                     IF pollers[p].id = id THEN [pollers[p] EXCEPT !.pc = "none"] ELSE pollers[p]]
    /\ UNCHANGED <<now, notLsn, msgEvents, nextInst>>

\* lines 1113-1118: overwrite remove_listener.txt with the id
Stop(id) ==
    /\ files[remove_file] # File(id)
    /\ files' = [files EXCEPT ![remove_file] = File(id)]
    /\ UNCHANGED <<now, notLsn, lsnVars>>

\* the external service delivers a file for subscription id; the file system
\* stamps it with the current time
Svc_Deliver(id, d) ==
    /\ nextInst <= MaxMessages
    /\ files' = [files EXCEPT ![ReceivedFile(id)] =
                    [exists |-> TRUE, data |-> d, mtime |-> now, dest |-> id, inst |-> nextInst]]
    /\ nextInst' = nextInst + 1
    /\ UNCHANGED <<now, notLsn, pollers, msgEvents>>

\* SystemTime advances
Tick ==
    /\ now < MaxTime
    /\ now' = now + 1
    /\ UNCHANGED <<files, notLsn, lsnVars>>

\* SystemTime advances, for the pollers watched alone
Clock_Tick ==
    /\ now < MaxClock
    /\ now' = now + 1
    /\ UNCHANGED <<files, notLsn, lsnVars>>

InitLsnVars ==
    /\ pollers = [p \in PollerIds |-> NoPoller]
    /\ msgEvents = EmptyBag
    /\ nextInst = 1

(***************************************************************************)
(* The dispatcher with serialized callers.                                 *)
(***************************************************************************)
vars == <<files, cache, now, sendVars, monVars, lsnVars>>

InitSendVars ==
    /\ sendPc = [c \in CallIds |-> "idle"]
    /\ sendLocal = [c \in CallIds |-> NoLocals]
    /\ sendResult = [c \in CallIds |-> NoResult]
    /\ svcReq = 0
    /\ hist = [c \in CallIds |-> NoHistory]

\* a call arrives with the cache holding what the monitor last stored; an
\* error artifact may be left over from an earlier run
InitSend ==
    /\ files \in [AllPaths -> {Absent}] \cup
                 {[p \in AllPaths |-> IF p = error_path THEN File(ServiceError(0)) ELSE Absent]}
    /\ cache \in CacheAtCall
    /\ now = 0
    /\ InitSendVars
    /\ InitMonVars
    /\ InitLsnVars

Send_Step(c) ==
    \/ \E phone_number \in PhoneInputs, message \in MessageInputs :
         Serialized(c) /\ Send_Enter(c, phone_number, message)
    \/ Send_RemoveStaleError(c)
    \/ Send_WriteMessage(c)
    \/ Send_LoopCheck(c)
    \/ Send_Sleep(c)
    \/ Send_ErrCheck(c)
    \/ Send_ErrRead(c)
    \/ Send_ErrReturn(c)
    \/ Send_FinalCheck(c)
    \/ Send_Timeout(c)

NextSend ==
    \/ \E c \in CallIds : Send_Step(c)
    \/ Send_Tick
    \/ Svc_ReadMessage
    \/ Svc_RemoveMessage
    \/ Svc_WriteError

SpecSend == InitSend /\ [][NextSend]_vars

(***************************************************************************)
(* Claims about the dispatcher.                                            *)
(***************************************************************************)
Outcomes == {"ok", "error", "timeout", "io_error"}

\* call c has returned from past the precondition
Returned(c) == sendPc[c] = "done" /\ sendResult[c].kind \in Outcomes

\* call c is past the precondition and has not returned
InProgress(c) == sendPc[c] \in Exchanging \cup {"rmerr"}

\* this step is the return of call c from past the precondition
Returns(c) == sendPc[c] \in Exchanging /\ sendPc'[c] = "done"

\* C1: a call made while the cached status lacks is_authenticated or
\* is_client_ready returns the 'not connected' error in that very step and
\* creates, modifies or deletes no mailbox file.
C1_NotConnectedTouchesNothing ==
    [][\A c \in CallIds :
         (sendPc[c] = "idle" /\ sendPc'[c] # "idle"
            /\ ~(cache.is_authenticated /\ cache.is_client_ready))
         => /\ sendPc'[c] = "done"
            /\ sendResult'[c].kind = "not_connected"
            /\ files' = files]_vars

C1_Witness ==
    \E c \in CallIds :
        /\ sendPc[c] = "done"
        /\ sendResult[c].kind = "not_connected"
        /\ files[error_path].exists
        /\ ~files[message_path].exists

\* C2 as claimed: a call past the precondition returns success if and only
\* if the service removed message.json before the 5 s deadline elapsed.
C2_SuccessIffRemovedBeforeDeadline ==
    \A c \in CallIds :
        Returned(c) => (sendResult[c].kind = "ok" <=> hist[c].rmBefore)

\* C2 amended: success is returned only when the service removed
\* message.json before the dispatcher's last existence check (rmDuring, which
\* may be after the deadline); a removal before the deadline
\* ends in success or in the error artifact's content, never in a timeout;
\* and a removal with no error artifact written during the call is success.
C2_SuccessOnlyAfterRemoval ==
    \A c \in CallIds :
        Returned(c) =>
            /\ sendResult[c].kind = "ok" => hist[c].rmDuring
            /\ hist[c].rmBefore => sendResult[c].kind \in {"ok", "error"}
            /\ (hist[c].rmDuring /\ ~hist[c].errDuring) => sendResult[c].kind = "ok"

C2_Witness ==
    \E c \in CallIds :
        Returned(c) /\ sendResult[c].kind = "ok" /\ hist[c].rmBefore

\* C3 as claimed: a call past the precondition fails with the content of
\* message_error.txt if and only if the artifact appeared before the request
\* file disappeared and before the deadline; the artifact is gone on return.
C3_ErrorIffArtifactFirst ==
    [][\A c \in CallIds :
         Returns(c) =>
            /\ sendResult'[c].kind = "error" <=> hist[c].errFirst
            /\ sendResult'[c].kind = "error" => ~files'[error_path].exists]_vars

\* C3 amended: a call fails with the artifact's content exactly when a poll
\* finds message_error.txt; an artifact present when a wait iteration begins
\* is always found; the content returned is the content read, written by the
\* service during this call; the artifact is deleted in the returning step.
C3_ErrorWhenPolled ==
    [][\A c \in CallIds :
         /\ (sendPc[c] = "errread" /\ sendPc'[c] = "errrm")
               => sendLocal'[c].error = files[error_path].data
         /\ Returns(c) =>
               /\ hist[c].errAtIter => sendResult'[c].kind = "error"
               /\ sendResult'[c].kind = "error" =>
                     /\ hist[c].errDuring
                     /\ sendResult'[c].error = sendLocal[c].error
                     /\ sendResult'[c].error.about # 0
                     /\ ~files'[error_path].exists]_vars

C3_Witness ==
    \E c \in CallIds :
        /\ Returned(c)
        /\ sendResult[c].kind = "error"
        /\ sendResult[c].error = ServiceError(c)
        /\ hist[c].errFirst
        /\ ~files[error_path].exists

\* C4 as claimed: a call past the precondition fails with the timeout error
\* if and only if neither the removal of the request nor an error artifact
\* happened before the deadline; message.json is gone when it returns so.
C4_TimeoutIffNeitherBeforeDeadline ==
    [][\A c \in CallIds :
         Returns(c) =>
            /\ sendResult'[c].kind = "timeout"
                  <=> (~hist[c].rmBefore /\ ~hist[c].errBefore)
            /\ sendResult'[c].kind = "timeout" => ~files'[message_path].exists]_vars

\* C4 amended: the timeout error is returned only when the deadline elapsed,
\* the service never removed the request and no wait iteration began with an
\* error artifact present; it is always returned when the service neither
\* removed the request nor wrote an artifact during the call; message.json
\* does not exist when the call returns the timeout error.
C4_TimeoutCleansUp ==
    [][\A c \in CallIds :
         Returns(c) =>
            /\ sendResult'[c].kind = "timeout" =>
                  /\ ~hist[c].rmDuring
                  /\ hist[c].expired
                  /\ ~hist[c].errAtIter
                  /\ ~files'[message_path].exists
            /\ (~hist[c].rmDuring /\ ~hist[c].errDuring)
                  => sendResult'[c].kind = "timeout"]_vars

C4_Witness ==
    \E c \in CallIds :
        /\ Returned(c)
        /\ sendResult[c].kind = "timeout"
        /\ hist[c].expired
        /\ ~files[message_path].exists

\* C5: a failed exchange never poisons the next one: after a call failed
\* (timeout or error artifact) its request file is not left in the mailbox
\* for the service to consume, and the call that follows a failed call never
\* fails with an artifact the service wrote about the failed request.
C5_FailedExchangeNeverPoisons ==
    \A c \in CallIds :
        /\ (Returned(c) /\ sendResult[c].kind \in {"error", "timeout"})
              => ~(files[message_path].exists /\ files[message_path].data.req = c)
        /\ (Returned(c) /\ hist[c].afterFailure /\ sendResult[c].kind = "error")
              => sendResult[c].error.about = c

\* C5, its second half alone: the stale-artifact removal at entry does not
\* keep a late artifact of the failed exchange out of the next exchange
C5_NextCallSeesOnlyItsOwnError ==
    \A c \in CallIds :
        (Returned(c) /\ hist[c].afterFailure /\ sendResult[c].kind = "error")
            => sendResult[c].error.about = c

\* C15: calls share message.json and message_error.txt, so overlapping calls
\* can return each other's outcomes; when the calls are serialized, every
\* call's outcome reflects only its own request: success means the service
\* removed this call's request, and an error is the artifact the service
\* wrote about this call's request.
C15_SerializedOutcomeIsOwn ==
    \A c \in CallIds :
        Returned(c) =>
            /\ sendResult[c].kind = "ok" => hist[c].rmDuring
            /\ sendResult[c].kind = "error" => sendResult[c].error.about = c

\* the digits of the phone numbers the UI passes, in their order
DigitsOf(phone_number_arg) ==
    IF phone_number_arg = <<"+", "1", " ", "5">> THEN <<"1", "5">>
    ELSE IF phone_number_arg = <<"2", "-", "a">> THEN <<"2">>
    ELSE <<"?">>

\* this step is call c writing message.json
WritesRequest(c) == sendPc[c] = "write" /\ sendPc'[c] = "loop"

\* C26: past the precondition a call first removes an existing
\* message_error.txt (leaving message.json alone) and only then writes
\* message.json; the request written holds the digits of the phone number
\* passed, in their order, and the message passed, unchanged; nothing else
\* of the bridge writes message.json.
C26_RemoveStaleThenWriteRequest ==
    [][/\ \A c \in CallIds :
            /\ (sendPc[c] # "write" /\ sendPc'[c] = "write") =>
                  /\ sendPc[c] = "rmerr"
                  /\ ~files'["message_error.txt"].exists
                  /\ files'["message.json"] = files["message.json"]
            /\ WritesRequest(c) =>
                  /\ files'["message.json"].exists
                  /\ files'["message.json"].data.phoneNumber
                        = DigitsOf(sendLocal[c].phone_number_arg)
                  /\ files'["message.json"].data.message = sendLocal[c].message
                  /\ sendLocal[c].message \in MessageInputs
                  /\ files'["message_error.txt"] = files["message_error.txt"]
       /\ (files'["message.json"].exists /\ files'["message.json"] # files["message.json"])
             => \E c \in CallIds : WritesRequest(c)]_vars

C26_Witness ==
    \E c \in CallIds :
        /\ sendPc[c] = "loop"
        /\ sendLocal[c].phone_number_arg = <<"+", "1", " ", "5">>
        /\ files["message.json"].exists
        /\ files["message.json"].data.phoneNumber = <<"1", "5">>
        /\ files["message.json"].data.message = "hi"
        /\ files["message.json"].data.req = c
        /\ ~files["message_error.txt"].exists

\* C27: a call that fails with the error artifact's content deletes only
\* message_error.txt: the returning step leaves message.json as it is (so a
\* request the service did not remove is still there after the call), while
\* the step that returns the timeout error deletes message.json.
C27_ErrorPathLeavesRequest ==
    [][\A c \in CallIds :
         Returns(c) =>
            /\ sendResult'[c].kind = "error" =>
                  /\ files'["message.json"] = files["message.json"]
                  /\ ~files'["message_error.txt"].exists
                  /\ \A path \in DOMAIN files :
                        path # "message_error.txt" => files'[path] = files[path]
            /\ sendResult'[c].kind = "timeout" =>
                  /\ ~files'["message.json"].exists
                  /\ files'["message_error.txt"] = files["message_error.txt"]]_vars

C27_Witness ==
    \E c \in CallIds :
        /\ sendPc[c] = "done"
        /\ sendResult[c].kind = "error"
        /\ files["message.json"].exists
        /\ files["message.json"].data.req = c
        /\ ~files["message_error.txt"].exists
        /\ ~hist[c].rmDuring

(***************************************************************************)
(* The dispatcher while the cache is being replaced by the monitor.        *)
(***************************************************************************)
\* lines 1019-1021: a monitor replaces the cached status while calls run
Cache_Replaced(status_data) ==
    /\ cache # status_data
    /\ cache' = status_data
    /\ UNCHANGED <<files, notSend, sendVars>>

NextSendCache ==
    \/ NextSend
    \/ \E status_data \in CacheAtCall : Cache_Replaced(status_data)

SpecSendCache == InitSend /\ [][NextSendCache]_vars

\* C28: the precondition is evaluated once, on the cache as it is at entry:
\* the 'not connected' error is returned only by the entering step, a change
\* of the cache while a call is in progress changes nothing of the call, and
\* the call's outcome is decided by message.json, the error artifact and the
\* deadline alone.
C28_PreconditionEvaluatedOnce ==
    [][\A c \in CallIds :
         /\ (sendPc[c] = "idle" /\ sendPc'[c] # "idle") =>
               (sendPc'[c] = "done" /\ sendResult'[c].kind = "not_connected")
                  <=> ~(cache.is_authenticated /\ cache.is_client_ready)
         /\ (sendPc[c] # "idle" /\ sendPc'[c] = "done" /\ sendPc[c] # "done")
               => sendResult'[c].kind # "not_connected"
         /\ (InProgress(c) /\ cache' # cache) =>
               /\ sendPc'[c] = sendPc[c]
               /\ sendLocal'[c] = sendLocal[c]
               /\ sendResult'[c] = sendResult[c]
         /\ Returns(c) =>
               /\ sendResult'[c].kind = "ok" => ~files["message.json"].exists
               /\ sendResult'[c].kind = "timeout" =>
                     (sendPc[c] = "tmo" /\ hist[c].expired)
               /\ sendResult'[c].kind = "error" =>
                     sendResult'[c].error = sendLocal[c].error
         /\ (sendPc[c] = "final" /\ sendPc'[c] = "tmo") => files["message.json"].exists]_vars

\* the cache says not connected while a call, entered when it said connected,
\* is about to return success
C28_Witness ==
    \E c \in CallIds :
        /\ sendPc[c] = "final"
        /\ ~files["message.json"].exists
        /\ hist[c].rmDuring
        /\ ~cache.is_client_ready
        /\ ~cache.is_authenticated

(***************************************************************************)
(* The dispatcher under a fair scheduler: a call that has been entered     *)
(* keeps being run.                                                        *)
(***************************************************************************)
Send_Proceeds(c) ==
    \/ Send_RemoveStaleError(c)
    \/ Send_WriteMessage(c)
    \/ Send_LoopCheck(c)
    \/ Send_Sleep(c)
    \/ Send_ErrCheck(c)
    \/ Send_ErrRead(c)
    \/ Send_ErrReturn(c)
    \/ Send_FinalCheck(c)
    \/ Send_Timeout(c)

SpecSendFair == SpecSend /\ \A c \in CallIds : WF_vars(Send_Proceeds(c))

\* C25: every call terminates: whatever the service does or fails to do, a
\* call past the precondition returns success, the error content or the
\* timeout error.
C25_SendTerminates ==
    \A c \in CallIds :
        InProgress(c) ~>
            (sendPc[c] = "done" /\ sendResult[c].kind \in {"ok", "error", "timeout"})

\* the service never touched the exchange, and the call returned at the deadline
C25_Witness ==
    \E c \in CallIds :
        /\ sendPc[c] = "done"
        /\ sendResult[c].kind = "timeout"
        /\ svcReq = 0
        /\ ~hist[c].rmDuring
        /\ ~hist[c].errDuring

(***************************************************************************)
(* The dispatcher with overlapping callers.                                *)
(***************************************************************************)
Send_StepOverlapping(c) ==
    \/ \E phone_number \in PhoneInputs, message \in MessageInputs :
         Send_Enter(c, phone_number, message)
    \/ Send_RemoveStaleError(c)
    \/ Send_WriteMessage(c)
    \/ Send_LoopCheck(c)
    \/ Send_Sleep(c)
    \/ Send_ErrCheck(c)
    \/ Send_ErrRead(c)
    \/ Send_ErrReturn(c)
    \/ Send_FinalCheck(c)
    \/ Send_Timeout(c)

NextSendOverlapping ==
    \/ \E c \in CallIds : Send_StepOverlapping(c)
    \/ Send_Tick
    \/ Svc_ReadMessage
    \/ Svc_RemoveMessage
    \/ Svc_WriteError

SpecSendOverlapping == InitSend /\ [][NextSendOverlapping]_vars

\* an overlapping call returned success although the service never removed
\* its request: the other call's timeout cleanup deleted message.json
C15_OverlappingStolenOutcome ==
    \E c \in CallIds :
        Returned(c) /\ sendResult[c].kind = "ok" /\ ~hist[c].rmDuring

(***************************************************************************)
(* The session cache, init_whatsapp, the monitor and get_whatsapp_status.  *)
(***************************************************************************)
\* main: the cache holds the initializing status; status.txt may be left
\* over from an earlier run
InitMon ==
    /\ files \in [AllPaths -> {Absent}] \cup
                 {[p \in AllPaths |->
                     IF p = status_file
                     THEN File(ToJson(WhatsAppStatus("ready", "t1", TRUE, TRUE, FALSE)))
                     ELSE Absent]}
    /\ cache = MainStatus
    /\ now = 0
    /\ InitSendVars
    /\ InitMonVars
    /\ InitLsnVars

Mon_Step(i) ==
    \/ Mon_CheckStatus(i)
    \/ Mon_Store(i)
    \/ Mon_Emit(i)
    \/ Mon_CheckQr(i)

NextMon ==
    \/ \E i \in InitIds : Init_Start(i)
    \/ \E i \in InitIds : Init_Emit(i)
    \/ \E i \in InitIds : Mon_Step(i)
    \/ Get_Read
    \/ Get_Store
    \/ \E d \in StatusWrites : Svc_WriteStatus(d)

SpecMon == InitMon /\ [][NextMon]_vars

(***************************************************************************)
(* Claims about the session cache and the monitor.                         *)
(***************************************************************************)
\* this step is the status poll of monitor i, and status.txt holds a valid status
PollsValidStatus(i) ==
    /\ monPc[i] = "status"
    /\ monPc'[i] # "status"
    /\ files[status_file].exists
    /\ ParsesAsStatus(files[status_file].data)

\* C6: when the monitor polls a status.txt that holds a valid SessionStatus,
\* the cache equals the parsed value (all five fields) after that poll: the
\* cache already holds it, or the monitor goes on to store it.
C6_CacheFollowsStatusFile ==
    [][\A i \in InitIds :
         PollsValidStatus(i) =>
            \/ cache = FromJson(files[status_file].data)
            \/ (monPc'[i] = "store" /\ mon'[i].status_data = FromJson(files[status_file].data))]_vars

\* C7: in the sequence of 'whatsapp-status' events (the initializer's event
\* together with the monitor's) no two consecutive events carry the same status.
C7_NoRepeatedStatusEvent ==
    Len(statusEvents) = 2 => statusEvents[1].status # statusEvents[2].status

\* C8: whenever the cached status is 'ready', is_client_ready and
\* is_authenticated are both true.
C8_ReadyImpliesConnected ==
    cache.status = "ready" => (cache.is_client_ready /\ cache.is_authenticated)

\* this step is monitor i storing the status it parsed
MonitorStores(i) == monPc[i] = "store" /\ monPc'[i] = "emit"

\* C12: the session cache is mutated only by the monitor (or the
\* initializer): every step that changes the cached value is a monitor's
\* store; no command handler changes it.
C12_CacheMutatedOnlyByMonitor ==
    [][cache' # cache => \E i \in InitIds : MonitorStores(i)]_vars

\* this step is get_whatsapp_status building, from status.txt, the status it returns
QueryBuildsResult == getPc = "idle" /\ getPc' = "store"

\* C13: a status query returns the value that was in the session cache when
\* it was called, whatever status.txt holds.
C13_QueryReturnsCachedValue ==
    [][QueryBuildsResult => getLocal' = cache]_vars

\* no monitor has had a successful poll yet
NoSuccessfulPoll == \A i \in InitIds : mon[i].last_status = ""

\* C14: until the monitor's first successful poll the session cache holds
\* the 'initializing' status, whatever commands are invoked in the meantime.
C14_InitializingUntilFirstPoll ==
    NoSuccessfulPoll =>
        /\ cache.status = "initializing"
        /\ ~cache.is_authenticated
        /\ ~cache.is_client_ready
        /\ cache.is_initializing

\* the monitor threads that exist
Monitors == {i \in InitIds : monPc[i] # "none"}

\* C16: the monitor is a singleton: in every reachable state at most one
\* status/QR monitor thread exists, whatever commands the UI invokes.
C16_MonitorIsSingleton == Cardinality(Monitors) <= 1

(***************************************************************************)
(* The monitor with the service writing qr.txt.                            *)
(***************************************************************************)
\* the status.txt contents of the service that the monitor can parse
ValidStatusWrites == {d \in StatusWrites : ParsesAsStatus(d)}

NextQr ==
    \/ \E i \in InitIds : Init_Start(i)
    \/ \E i \in InitIds : Init_Emit(i)
    \/ \E i \in InitIds : Mon_Step(i)
    \/ \E d \in StatusWrites \ ValidStatusWrites : Svc_WriteStatus(d)
    \/ \E str \in QrWrites : Svc_WriteQr(str)

SpecQr == InitMon /\ [][NextQr]_vars

\* this step is the QR check of monitor i
ChecksQr(i) == monPc[i] = "qr" /\ monPc'[i] # "qr"

\* the latest 'whatsapp-qr' event of monitor i among those kept, if any
LatestQrOf(i) ==
    IF qrEvents # <<>> /\ qrEvents[Len(qrEvents)].by = i
    THEN {qrEvents[Len(qrEvents)]}
    ELSE IF Len(qrEvents) = 2 /\ qrEvents[1].by = i THEN {qrEvents[1]} ELSE {}

NextMonitor ==
    \/ Init_Start(1)
    \/ Init_Emit(1)
    \/ Mon_Step(1)
    \/ Get_Read
    \/ Get_Store
    \/ \E d \in StatusWrites : Svc_WriteStatus(d)
    \/ Svc_RemoveStatus

SpecMonitor == InitMon /\ [][NextMonitor]_vars

\* this step is the status check of monitor i
ChecksStatus(i) == monPc[i] = "status" /\ monPc'[i] # "status"

\* C21: a status check that finds status.txt missing or not parsing as a
\* status emits no status event, leaves the cache and last_status unchanged
\* and goes on to the QR check; a monitor never stops; and a status check
\* that finds a valid status different from last_status takes it as
\* last_status, stores the parsed value in the cache and emits it.
C21_BadStatusReadIsNoChange ==
    [][\A i \in InitIds :
          /\ (ChecksStatus(i)
                /\ ~(files["status.txt"].exists /\ ParsesAsStatus(files["status.txt"].data)))
               => /\ monPc'[i] = "qr"
                  /\ mon'[i].last_status = mon[i].last_status
                  /\ cache' = cache
                  /\ statusEvents' = statusEvents
          /\ monPc[i] # "none" => monPc'[i] # "none"
          /\ (ChecksStatus(i)
                /\ files["status.txt"].exists /\ ParsesAsStatus(files["status.txt"].data)
                /\ files["status.txt"].data.status # mon[i].last_status)
               => /\ monPc'[i] = "store"
                  /\ mon'[i].last_status = files["status.txt"].data.status
                  /\ mon'[i].status_data = FromJson(files["status.txt"].data)
          /\ (monPc[i] = "store" /\ monPc'[i] # "store")
               => (monPc'[i] = "emit" /\ cache' = mon[i].status_data)
          /\ (monPc[i] = "emit" /\ monPc'[i] # "emit")
               => statusEvents'[Len(statusEvents')] = mon[i].status_data]_vars

\* the monitor applied and emitted 'ready', then found status.txt
\* unparseable: it is at its QR check with everything as it was
C21_Witness ==
    /\ files["status.txt"] = [exists |-> TRUE, data |-> Garbage]
    /\ monPc[1] = "qr"
    /\ mon[1].last_status = "ready"
    /\ cache.status = "ready"
    /\ statusEvents # <<>>
    /\ statusEvents[Len(statusEvents)].status = "ready"

\* the same with status.txt missing
C21_WitnessMissing ==
    /\ ~files["status.txt"].exists
    /\ monPc[1] = "qr"
    /\ mon[1].last_status = "ready"
    /\ cache.status = "ready"

(***************************************************************************)
(* The session cache's mutex, with the critical sections of its three      *)
(* users taken apart: lock, the assignment of the struct (its fields are   *)
(* copied one after another), unlock.                                      *)
(***************************************************************************)
LockedPcs == {"locked", "writing", "written"}

\* the threads inside a critical section of WhatsAppState's Mutex
Holders ==
    {<<"monitor", i>> : i \in {j \in InitIds : monPc[j] \in LockedPcs}}
      \cup (IF getPc \in LockedPcs THEN {<<"get", 0>>} ELSE {})
      \cup {<<"send", c>> : c \in {d \in CallIds : sendPc[d] = "locked"}}

\* Mutex::lock() returns when no other thread holds the guard
LockFree == Holders = {}

\* a struct assignment that has copied its first fields only
PartlyWritten(old, new) == [old EXCEPT !.status = new.status, !.timestamp = new.timestamp]

\* line 1019: if let Ok(mut state) = state.lock()
Mon_Lock(i) ==
    /\ monPc[i] = "store"
    /\ LockFree
    /\ monPc' = [monPc EXCEPT ![i] = "locked"]
    /\ UNCHANGED <<files, cache, notMon, initPc, mon, getPc, getLocal, statusEvents, qrEvents>>

\* line 1020: *state = status_data.clone()
Mon_AssignBegin(i) ==
    /\ monPc[i] = "locked"
    /\ cache' = PartlyWritten(cache, mon[i].status_data)
    /\ monPc' = [monPc EXCEPT ![i] = "writing"]
    /\ UNCHANGED <<files, notMon, initPc, mon, getPc, getLocal, statusEvents, qrEvents>>

Mon_AssignEnd_emitsLocked(i) ==
    /\ monPc[i] = "writing"
    /\ cache' = mon[i].status_data
    /\ statusEvents' = Emit(statusEvents, mon[i].status_data)
    /\ monPc' = [monPc EXCEPT ![i] = "written"]
    /\ UNCHANGED <<files, notMon, initPc, mon, getPc, getLocal, qrEvents>>

Mon_AssignEnd(i) ==
    /\ monPc[i] = "writing"
    /\ cache' = mon[i].status_data
    /\ monPc' = [monPc EXCEPT ![i] = "written"]
    /\ UNCHANGED <<files, notMon, initPc, mon, getPc, getLocal, statusEvents, qrEvents>>

\* line 1021: the guard goes out of scope
Mon_Unlock(i) ==
    /\ monPc[i] = "written"
    /\ monPc' = [monPc EXCEPT ![i] = "emit"]
    /\ UNCHANGED <<files, cache, notMon, initPc, mon, getPc, getLocal, statusEvents, qrEvents>>

\* lines 961-962: state.0.lock(), after the file was read and parsed
Get_Lock ==
    /\ getPc = "store"
    /\ LockFree
    /\ getPc' = "locked"
    /\ UNCHANGED <<files, cache, notMon, initPc, monPc, mon, getLocal, statusEvents, qrEvents>>

\* lines 963-969: *whatsapp_status = WhatsAppStatus {..}
Get_AssignBegin ==
    /\ getPc = "locked"
    /\ cache' = PartlyWritten(cache, getLocal)
    /\ getPc' = "writing"
    /\ UNCHANGED <<files, notMon, initPc, monPc, mon, getLocal, statusEvents, qrEvents>>

Get_AssignEnd ==
    /\ getPc = "writing"
    /\ cache' = getLocal
    /\ getPc' = "written"
    /\ UNCHANGED <<files, notMon, initPc, monPc, mon, getLocal, statusEvents, qrEvents>>

\* lines 971-972: return a clone; the guard is dropped with the frame
Get_Unlock ==
    /\ getPc = "written"
    /\ getLocal' = MainStatus
    /\ getPc' = "idle"
    /\ UNCHANGED <<files, cache, notMon, initPc, monPc, mon, statusEvents, qrEvents>>

\* line 785: state.0.lock()
Send_Lock(c) ==
    /\ sendPc[c] = "idle"
    /\ LockFree
    /\ sendPc' = [sendPc EXCEPT ![c] = "locked"]
    /\ UNCHANGED <<files, cache, notSend, sendLocal, sendResult, svcReq, hist>>

\* lines 785-793: .clone() of the guarded value; the temporary guard is
\* dropped at the end of the statement; then the precondition on the copy
Send_Clone(c, phone_number, message) ==
    /\ sendPc[c] = "locked"
    /\ LET whatsapp_status == cache IN
         IF NotConnected(whatsapp_status)
         THEN /\ sendPc' = [sendPc EXCEPT ![c] = "done"]
              /\ sendResult' = [Taken(c, sendResult, NoResult) EXCEPT
                                  ![c] = [kind |-> "not_connected", error |-> NoError]]
              /\ UNCHANGED sendLocal
         ELSE /\ sendPc' = [sendPc EXCEPT ![c] = "rmerr"]
              /\ sendLocal' = [sendLocal EXCEPT ![c].phone_number_arg = phone_number,
                                                ![c].phone_number = FormatPhoneNumber(phone_number),
                                                ![c].message = message]
              /\ sendResult' = Taken(c, sendResult, NoResult)
    /\ hist' = [Taken(c, hist, NoHistory) EXCEPT ![c].afterFailure = PreviousFailed(c)]
    /\ UNCHANGED <<files, cache, notSend, svcReq>>

\* the users of the lock: the monitor of the setup invocation,
\* get_whatsapp_status and the entry of send_whatsapp_message (the exchange
\* that follows the entry never touches the lock)
NextLock ==
    \/ Init_Start(1)
    \/ Init_Emit(1)
    \/ Mon_CheckStatus(1)
    \/ Mon_Lock(1)
    \/ Mon_AssignBegin(1)
    \/ Mon_AssignEnd(1)
    \/ Mon_Unlock(1)
    \/ Mon_Emit(1)
    \/ Mon_CheckQr(1)
    \/ Get_Read
    \/ Get_Lock
    \/ Get_AssignBegin
    \/ Get_AssignEnd
    \/ Get_Unlock
    \/ \E c \in CallIds : Serialized(c) /\ Send_Lock(c)
    \/ \E c \in CallIds, phone_number \in PhoneInputs, message \in MessageInputs :
         Send_Clone(c, phone_number, message)
    \/ \E d \in StatusWrites : Svc_WriteStatus(d)

SpecLock == InitMon /\ [][NextLock]_vars

\* a thread inside a critical section keeps being run
Lock_Proceeds ==
    \/ Mon_AssignBegin(1)
    \/ Mon_AssignEnd(1)
    \/ Mon_Unlock(1)
    \/ Get_AssignBegin
    \/ Get_AssignEnd
    \/ Get_Unlock
    \/ \E c \in CallIds, phone_number \in PhoneInputs, message \in MessageInputs :
         Send_Clone(c, phone_number, message)

SpecLockFair == SpecLock /\ WF_vars(Lock_Proceeds)

LockUsers ==
    {<<"monitor", i>> : i \in InitIds} \cup {<<"get", 0>>} \cup {<<"send", c>> : c \in CallIds}

\* this step is a step of thread h
Moves(h) ==
    IF h[1] = "monitor" THEN monPc'[h[2]] # monPc[h[2]]
    ELSE IF h[1] = "get" THEN getPc' # getPc
    ELSE sendPc'[h[2]] # sendPc[h[2]]

\* the values that are assigned to the cache as a whole
WholeValues == CacheAtCall \cup {init_status}

\* C24: the lock has one holder at a time; a thread takes no step with the
\* lock held (taking and releasing it included) that changes a file, emits
\* an event or lets time pass; what a reader copies under the lock is a
\* whole SessionStatus, never fields of two writes (the dispatcher's copy is
\* a written value, get_whatsapp_status returns the value it stored, and
\* the cache is whole whenever the lock is free); and a held lock is always
\* released, so no thread waits for it forever.
C24_LockHeldOnlyForCopy ==
    /\ [](Cardinality(Holders) <= 1)
    /\ [][\A h \in LockUsers :
            (Moves(h) /\ (h \in Holders \/ h \in Holders'))
               => /\ files' = files
                  /\ statusEvents' = statusEvents
                  /\ qrEvents' = qrEvents
                  /\ msgEvents' = msgEvents
                  /\ now' = now]_vars
    /\ [](\A c \in CallIds : sendPc[c] = "locked" => cache \in WholeValues)
    /\ [](getPc = "written" => cache = getLocal)
    /\ [](Holders = {} => cache \in WholeValues)
    /\ (Holders # {}) ~> (Holders = {})

\* the dispatcher waits for the lock while the monitor is in the middle of
\* its assignment: the cache holds fields of two writes
C24_Witness ==
    /\ \E i \in InitIds : monPc[i] = "writing"
    /\ cache \notin WholeValues
    /\ \E c \in CallIds : sendPc[c] = "idle" /\ Serialized(c)
    /\ getPc = "store"

(***************************************************************************)
(* The listener registry, its pollers and the service's deliveries.        *)
(***************************************************************************)
InitListen ==
    /\ files = [p \in AllPaths |-> Absent]
    /\ cache = MainStatus
    /\ now = 0
    /\ InitSendVars
    /\ InitMonVars
    /\ InitLsnVars

Poll_Step(p) ==
    \/ Poll_Metadata(p)
    \/ Poll_Read(p)
    \/ Poll_Remove(p)
    \/ Poll_Stamp(p)

NextListen ==
    \/ \E p \in PollerIds, id \in Ids, phone_numbers \in PhoneLists, command \in Commands :
         Listen(p, id, phone_numbers, command)
    \/ \E p \in PollerIds : Poll_Step(p)
    \/ \E id \in Ids, d \in InboundWrites : Svc_Deliver(id, d)
    \/ Tick

SpecListen == InitListen /\ [][NextListen]_vars

(***************************************************************************)
(* Claims about the listener registry.                                     *)
(***************************************************************************)
Emitted == BagToSet(msgEvents)

\* this step is a step of the running poller p
PollerActs(p) == pollers[p].pc # "none" /\ pollers'[p] # pollers[p]

\* C9: for listeners with distinct ids, the poller of an id emits only what
\* the service delivered for that id, and a poller's step changes no file
\* other than received_<its id>.json.
C9_PollersIsolatedByFile ==
    /\ [](\A e \in Emitted : e.dest = pollers[e.by].id)
    /\ [][\A p \in PollerIds :
            PollerActs(p) =>
               \A path \in DOMAIN files :
                   path # ("received_" \o pollers[p].id \o ".json")
                      => files'[path] = files[path]]_vars

C9_Witness ==
    \E p, q \in PollerIds :
        /\ pollers[p].id = "A"
        /\ pollers[q].id = "B"
        /\ \E e \in Emitted : e.by = p /\ e.dest = "A"
        /\ \A e \in Emitted : e.by # q
        /\ ~files["received_A.json"].exists
        /\ files["received_B.json"].exists

\* C10: for a listener id an event fires at most once per modification-time
\* value of received_<id>.json: a file instance is delivered at most once.
C10_AtMostOncePerModificationTime ==
    \A e1, e2 \in Emitted :
        (e1.dest = e2.dest /\ e1.mtime = e2.mtime)
            => (e1 = e2 /\ CopiesIn(e1, msgEvents) = 1)

\* C10 for ids that were registered once: with one poller per id it holds
C10_AtMostOnceWithOnePollerPerId ==
    (\A p, q \in PollerIds :
        (p # q /\ pollers[p].pc # "none" /\ pollers[q].pc # "none")
            => pollers[p].id # pollers[q].id)
      => C10_AtMostOncePerModificationTime

\* this step of poller p deletes the file at received_<its id>.json
PollerDeletes(p) ==
    /\ PollerActs(p)
    /\ files[ReceivedFile(pollers[p].id)].exists
    /\ ~files'[ReceivedFile(pollers[p].id)].exists

\* C11: no valid message the service placed at received_<id>.json is deleted
\* without having been emitted: whenever a poller removes the file, the
\* instance it removes is one whose content it has turned into an event (so
\* that every placed message can still yield its event), also when the
\* service places the next message while the previous one is processed.
C11_NoMessageDeletedUnemitted ==
    [][\A p \in PollerIds :
         (PollerDeletes(p) /\ ParsesAsMessage(files[ReceivedFile(pollers[p].id)].data))
            => \E e \in Emitted :
                  e.inst = files[ReceivedFile(pollers[p].id)].inst]_vars

\* the poller threads that exist
Pollers == {p \in PollerIds : pollers[p].pc # "none"}

\* C17: each subscription owns exactly one poller: in every reachable state
\* there is at most one poller per subscription id, also when an id is
\* registered again.
C17_OnePollerPerId ==
    \A p, q \in Pollers : pollers[p].id = pollers[q].id => p = q

\* this step is the registration that starts poller p
Registers(p) == pollers[p].pc = "none" /\ pollers'[p].pc # "none"

\* the poller of the most recent registration
LastRegistered(p) == p \in Pollers /\ \A q \in Pollers : q <= p

\* the descriptors listeners.json can hold for a registration of id
Descriptors(id) ==
    { File([id |-> id, phoneNumbers |-> phone_numbers, command |-> command]) :
        phone_numbers \in PhoneLists, command \in Commands }

\* C18: a registration overwrites listeners.json with its own descriptor and
\* starts a poller for its id in the same call; listeners.json always holds
\* the descriptor of the most recent registration only, and the pollers of
\* all earlier registrations keep running with their ids.
C18_LastRegistrationWins ==
    /\ [](\A p \in PollerIds :
            LastRegistered(p) => files["listeners.json"] \in Descriptors(pollers[p].id))
    /\ [][\A p \in PollerIds :
            /\ Registers(p) =>
                  /\ pollers'[p].pc = "sleep"
                  /\ pollers'[p].last_check = now
                  /\ files'["listeners.json"] \in Descriptors(pollers'[p].id)
            /\ p \in Pollers =>
                  /\ pollers'[p].pc # "none"
                  /\ pollers'[p].id = pollers[p].id]_vars

C18_Witness ==
    /\ pollers[1].id = "A"
    /\ pollers[2].id = "B"
    /\ pollers[1].pc = "remove"
    /\ pollers[2].pc = "sleep"
    /\ files["listeners.json"].exists
    /\ files["listeners.json"].data.id = "B"

(***************************************************************************)
(* The listener registry with removal requests.                            *)
(***************************************************************************)
\* the well-formed messages among the service's deliveries
ValidInbound == {d \in InboundWrites : ParsesAsMessage(d)}

NextStop ==
    \/ \E p \in PollerIds, id \in Ids, phone_numbers \in PhoneLists, command \in Commands :
         Listen(p, id, phone_numbers, command)
    \/ \E p \in PollerIds : Poll_Step(p)
    \/ \E id \in Ids : Stop(id)
    \/ \E id \in Ids, d \in ValidInbound : Svc_Deliver(id, d)
    \/ Tick

SpecStop == InitListen /\ [][NextStop]_vars

\* C19: stop_whatsapp_listener(id) overwrites remove_listener.txt with
\* exactly the id and changes nothing else: no poller, no event, no other
\* file (listeners.json, received_*.json), not the session cache.
C19_StopOnlyWritesSentinel ==
    [][files'["remove_listener.txt"] # files["remove_listener.txt"] =>
          /\ \E id \in Ids : files'["remove_listener.txt"] = [exists |-> TRUE, data |-> id]
          /\ \A path \in DOMAIN files :
                path # "remove_listener.txt" => files'[path] = files[path]
          /\ pollers' = pollers
          /\ msgEvents' = msgEvents
          /\ cache' = cache]_vars

\* removal of A was requested, and the poller of A goes on: it has found a
\* newer received_A.json and emitted its message
C19_Witness ==
    /\ files["remove_listener.txt"] = [exists |-> TRUE, data |-> "A"]
    /\ \E p \in Pollers :
          /\ pollers[p].id = "A"
          /\ pollers[p].pc = "remove"
          /\ \E e \in Emitted : e.by = p /\ e.dest = "A"
    /\ files["listeners.json"].exists
    /\ files["received_A.json"].exists

(***************************************************************************)
(* A few pollers watched over a longer time, with registrations that fail. *)
(***************************************************************************)
WatcherIds == 1..MaxWatchers

NextPoller ==
    \/ \E p \in WatcherIds, id \in Ids, phone_numbers \in PhoneLists, command \in Commands :
         Listen(p, id, phone_numbers, command)
    \/ \E p \in PollerIds, id \in Ids, phone_numbers \in PhoneLists, command \in Commands :
         Listen_WriteFails(p, id, phone_numbers, command)
    \/ \E p \in PollerIds : Poll_Step(p)
    \/ \E id \in Ids, d \in InboundWrites : Svc_Deliver(id, d)
    \/ Clock_Tick

SpecPoller == InitListen /\ [][NextPoller]_vars

(***************************************************************************)
(* Claims about a poller's cycles.                                         *)
(***************************************************************************)
\* this step of poller p emits event e
Emits(p, e) == e.by = p /\ CopiesIn(e, msgEvents') > CopiesIn(e, msgEvents)

\* C23: the modification times of the file instances behind successive
\* 'whatsapp-message-received' events of one poller are strictly increasing:
\* an event a poller emits has a modification time above that of every
\* event the same poller emitted before (modification times are never in
\* the future of the clock).
C23_EventsInModificationOrder ==
    [][\A p \in PollerIds : \A e2 \in BagToSet(msgEvents') :
          Emits(p, e2) => \A e1 \in Emitted : e1.by = p => e1.mtime < e2.mtime]_vars

\* one poller has emitted two messages, with modification times 1 and 2
C23_Witness ==
    \E p \in Pollers : \E e1, e2 \in Emitted :
        /\ e1.by = p /\ e2.by = p
        /\ e1.mtime = 1 /\ e2.mtime = 2
        /\ e1.inst < e2.inst
        /\ pollers[p].pc = "remove"

\* the cycle poller p is finishing found a newer file and emitted nothing
BadCycle(p) ==
    /\ pollers[p].pc = "stamp"
    /\ \A e \in Emitted : e.by = p => e.mtime < pollers[p].modified

\* C22: a poller never terminates; a cycle that finds received_<id>.json
\* missing or malformed emits nothing and goes on; and a valid message
\* written to the path with a modification time strictly newer than that of
\* the file the bad cycle saw can still be emitted: when the bad cycle ends,
\* that message is newer than the poller's last-check time.
C22_BadReadSkipsCycleOnly ==
    [][\A p \in Pollers :
          LET received_file == ReceivedFile(pollers[p].id) IN
          /\ pollers'[p].pc # "none"
          /\ (PollerActs(p) /\ pollers[p].pc = "read"
                /\ ~(files[received_file].exists /\ ParsesAsMessage(files[received_file].data)))
               => (msgEvents' = msgEvents /\ files' = files)
          /\ (BadCycle(p) /\ pollers'[p].pc = "sleep"
                /\ files[received_file].exists
                /\ ParsesAsMessage(files[received_file].data)
                /\ files[received_file].mtime > pollers[p].modified)
               => files[received_file].mtime > pollers'[p].last_check]_vars

\* C29: a registration whose write of listeners.json fails starts no poller:
\* a step that leaves listeners.json without a descriptor changes no poller
\* and emits nothing, and every step that starts a poller has written the
\* descriptor of that poller's id.
C29_FailedRegistrationStartsNoPoller ==
    [][/\ \A p \in PollerIds :
            Registers(p) => files'["listeners.json"] \in Descriptors(pollers'[p].id)
       /\ (files'["listeners.json"] # files["listeners.json"]
             /\ \A id \in Ids : files'["listeners.json"] \notin Descriptors(id))
            => (Pollers' = Pollers /\ pollers' = pollers /\ msgEvents' = msgEvents)]_vars

\* the registration of A succeeded and its poller runs; a later registration
\* failed and left listeners.json truncated, with no second poller
C29_Witness ==
    /\ files["listeners.json"] = [exists |-> TRUE, data |-> Garbage]
    /\ pollers[1].pc = "read"
    /\ pollers[1].id = "A"
    /\ \A p \in PollerIds : p # 1 => pollers[p].pc = "none"

\* C30: a poller acts on received_<id>.json only when the file's
\* modification time is strictly newer than its last-check time, which
\* starts at the spawn time and is reset to the current time at the end of
\* every cycle that saw a newer file; a file not newer than the last-check
\* time is never emitted and never deleted, and a malformed file is never
\* deleted.
C30_ActsOnlyOnNewerFiles ==
    [][\A p \in PollerIds :
          LET received_file == ReceivedFile(pollers[p].id) IN
          /\ Registers(p) => pollers'[p].last_check = now
          /\ (PollerActs(p) /\ pollers'[p].last_check # pollers[p].last_check)
               => (pollers[p].pc = "stamp" /\ pollers'[p].last_check = now)
          /\ (PollerActs(p) /\ pollers[p].pc = "sleep")
               => (files[received_file].exists
                     /\ files[received_file].mtime > pollers[p].last_check)
          /\ (PollerActs(p) /\ msgEvents' # msgEvents)
               => files[received_file].mtime > pollers[p].last_check
          /\ PollerDeletes(p)
               => (files[received_file].mtime > pollers[p].last_check
                     /\ ParsesAsMessage(files[received_file].data))]_vars

(***************************************************************************)
(* The whole bridge.                                                       *)
(***************************************************************************)
Init == InitMon

Next ==
    \/ NextSend
    \/ NextMon
    \/ NextListen
    \/ \E str \in QrWrites : Svc_WriteQr(str)
    \/ \E id \in Ids : Stop(id)

Spec == Init /\ [][Next]_vars

====
